---- MODULE Spec2Model ----
(***************************************************************************)
(* A model of the chemical_composition crate: ElementSpecification (the    *)
(* (element, isotope) key and its text grammar) and ChemicalComposition    *)
(* (a HashMap from ElementSpecification to i32 with an Option<f64> mass     *)
(* cache), from src/src/composition.rs and src/src/element.rs.              *)
(*                                                                         *)
(* Representation.                                                         *)
(*   - An Option is a sequence: <<>> is None and <<v>> is Some(v).          *)
(*   - A mass (f64) is an integer number of milli-daltons; sums of masses  *)
(*     are exact, so the rounding of f64 addition is not modelled.         *)
(*   - A &str is a sequence of one-character strings (ASCII only, so the   *)
(*     char index of chars().enumerate() is the byte index of a slice).    *)
(*   - A HashMap is a function; its iteration order is an arbitrary        *)
(*     permutation of its keys, chosen anew by every operation that        *)
(*     iterates and whose result can depend on it.                         *)
(*   - Counts stay within -MaxCount..MaxCount (the guards of the actions), *)
(*     far inside i32, so no i32 addition or multiplication overflows.     *)
(***************************************************************************)
EXTENDS Integers, Sequences, FiniteSets, TLC

VARIABLES a, b, t, tsrc, ret, last, text, pairs, pos

vars == <<a, b, t, tsrc, ret, last, text, pairs, pos>>

(***************************************************************************)
(* Bounds of the model.                                                    *)
(***************************************************************************)
\* Largest absolute count a composition of the model holds.
MaxCount == 2
\* Most entries of a composition handed to to_string.
MaxKeys == 4
\* Longest text handed to ElementSpecification::parse.
MaxLen == 4
\* Longest sequence of pairs handed to from_iter.
MaxPairs == 3
\* Every isotope number up to this one is rendered and parsed back.
MaxIsotope == 20

(***************************************************************************)
(* element.rs: Isotope, Element, PeriodicTable.                            *)
(***************************************************************************)
Isotope(mass, neutrons) == [mass |-> mass, neutrons |-> neutrons]

Element(symbol, isotopes, most_abundant_isotope) ==
    [symbol |-> symbol,
     isotopes |-> isotopes,
     most_abundant_isotope |-> most_abundant_isotope,
     most_abundant_mass |-> isotopes[most_abundant_isotope].mass]

\* Element symbols, as texts.
SymC == <<"C">>
SymH == <<"H">>
SymO == <<"O">>
SymFe == <<"F", "e">>
SymAr == <<"A", "r">>
SymCa == <<"C", "a">>

\* The periodic table (crate::table::PERIODIC_TABLE): the elements the model
\* uses, each with two of its isotopes and their masses in milli-daltons.
\* Argon and calcium have most-abundant masses with the same integer part.
PERIODIC_TABLE ==
    [sym \in {SymC, SymH, SymO, SymFe, SymAr, SymCa} |->
        CASE sym = SymC  -> Element(SymC, (12 :> Isotope(12000, 12)) @@ (13 :> Isotope(13003, 13)), 12)
          [] sym = SymH  -> Element(SymH, (1 :> Isotope(1008, 1)) @@ (2 :> Isotope(2014, 2)), 1)
          [] sym = SymO  -> Element(SymO, (16 :> Isotope(15995, 16)) @@ (18 :> Isotope(17999, 18)), 16)
          [] sym = SymFe -> Element(SymFe, (56 :> Isotope(55935, 56)) @@ (54 :> Isotope(53940, 54)), 56)
          [] sym = SymAr -> Element(SymAr, (40 :> Isotope(39962, 40)) @@ (36 :> Isotope(35968, 36)), 40)
          [] sym = SymCa -> Element(SymCa, (40 :> Isotope(39963, 40)) @@ (44 :> Isotope(43955, 44)), 40)]

(***************************************************************************)
(* composition.rs: ElementSpecification.                                   *)
(***************************************************************************)
\* ElementSpecification::new; the element reference is the element's symbol.
ElementSpecification(element, isotope) == [element |-> element, isotope |-> isotope]

\* PartialEq for Element: symbol, then most_abundant_isotope.
ElementEq(e1, e2) ==
    IF PERIODIC_TABLE[e1].symbol # PERIODIC_TABLE[e2].symbol THEN FALSE
    ELSE IF PERIODIC_TABLE[e1].most_abundant_isotope # PERIODIC_TABLE[e2].most_abundant_isotope THEN FALSE
    ELSE TRUE

\* Hash for Element: the symbol is all that is written to the hasher.
ElementHash(e) == PERIODIC_TABLE[e].symbol

\* Hash for ElementSpecification: what the element writes to the hasher; the
\* isotope is not written.
hash(s) == ElementHash(s.element)

\* PartialEq as a bug would have it: the element alone, as Hash has it.
SpecEq_by_element(s1, s2) == ElementEq(s1.element, s2.element)

\* PartialEq for ElementSpecification: element, then isotope.
SpecEq(s1, s2) ==
    IF ~ElementEq(s1.element, s2.element) THEN FALSE
    ELSE s1.isotope = s2.isotope

\* The key test of a HashMap lookup: the stored key is met in the bucket of
\* the probe's hash, and is equal to the probe.
SameKey(stored, probe) == hash(stored) = hash(probe) /\ SpecEq(stored, probe)

(***************************************************************************)
(* composition.rs: ChemicalComposition.                                    *)
(***************************************************************************)
None == <<>>
Some(v) == <<v>>

\* ChemicalComposition::new: an empty map and no cached mass.
new == [composition |-> <<>>, mass_cache |-> None]

Keys(c) == DOMAIN c.composition

\* HashMap::insert: the entry of the key the lookup finds is replaced.
Insert(m, k, v) ==
    [x \in {y \in DOMAIN m : ~SameKey(y, k)} \cup {k} |-> IF x = k THEN v ELSE m[x]]

\* The iteration orders of a HashMap with these keys: every permutation.
RECURSIVE IterOrders(_)
IterOrders(S) ==
    IF S = {} THEN {<<>>}
    ELSE UNION {{<<x>> \o q : q \in IterOrders(S \ {x})} : x \in S}

\* One iteration order, for the loops whose result does not depend on it.
AnOrder(S) == CHOOSE q \in IterOrders(S) : TRUE

\* The per-atom mass calc_mass uses for a key.
AtomMass(elt_spec) ==
    IF elt_spec.isotope = 0
    THEN PERIODIC_TABLE[elt_spec.element].isotopes[PERIODIC_TABLE[elt_spec.element].most_abundant_isotope].mass
    ELSE PERIODIC_TABLE[elt_spec.element].isotopes[elt_spec.isotope].mass

RECURSIVE SumMass(_, _, _)
SumMass(m, order, i) ==
    IF i > Len(order) THEN 0
    ELSE AtomMass(order[i]) * m[order[i]] + SumMass(m, order, i + 1)

\* ChemicalComposition::calc_mass.
calc_mass(c) == SumMass(c.composition, AnOrder(Keys(c)), 1)

\* mass as a bug would have it: the cached value is never read.
mass_uncached(c) == calc_mass(c)

\* ChemicalComposition::mass: the cached value, else calc_mass, never stored.
mass(c) == IF c.mass_cache = None THEN calc_mass(c) ELSE c.mass_cache[1]

\* ChemicalComposition::fmass: the composition after the call.
fmass(c) ==
    IF c.mass_cache = None THEN [c EXCEPT !.mass_cache = Some(mass(c))] ELSE c

\* get as a bug would have it: the key is matched by its element alone, as
\* the Hash of ElementSpecification does.
get_by_element(c, elt_spec) ==
    IF \E k \in Keys(c) : ElementEq(k.element, elt_spec.element)
    THEN c.composition[CHOOSE k \in Keys(c) : ElementEq(k.element, elt_spec.element)]
    ELSE 0

\* ChemicalComposition::get.
get(c, elt_spec) ==
    IF \E k \in Keys(c) : SameKey(k, elt_spec)
    THEN c.composition[CHOOSE k \in Keys(c) : SameKey(k, elt_spec)]
    ELSE 0

\* ChemicalComposition::set.
set(c, elt_spec, count) ==
    [composition |-> Insert(c.composition, elt_spec, count), mass_cache |-> None]

\* inc as a bug would have it: the count is written, not added.
inc_overwrite(c, elt_spec, count) == set(c, elt_spec, count)

\* ChemicalComposition::inc.
inc(c, elt_spec, count) == set(c, elt_spec, get(c, elt_spec) + count)

RECURSIVE AddLoop(_, _, _, _)
AddLoop(c, other, order, i) ==
    IF i > Len(order) THEN c
    ELSE AddLoop(inc(c, order[i], other.composition[order[i]]), other, order, i + 1)

RECURSIVE SetLoop(_, _, _, _)
SetLoop(c, other, order, i) ==
    IF i > Len(order) THEN c
    ELSE SetLoop(set(c, order[i], other.composition[order[i]]), other, order, i + 1)

\* _add_from as a bug would have it: the counts of other replace those of c.
add_from_set(c, other) == SetLoop(c, other, AnOrder(Keys(other)), 1)

\* ChemicalComposition::_add_from.
add_from(c, other) == AddLoop(c, other, AnOrder(Keys(other)), 1)

RECURSIVE SubLoop(_, _, _, _)
SubLoop(c, other, order, i) ==
    IF i > Len(order) THEN c
    ELSE SubLoop(inc(c, order[i], -other.composition[order[i]]), other, order, i + 1)

\* _sub_from as a bug would have it: the counts are not negated.
sub_from_noneg(c, other) == AddLoop(c, other, AnOrder(Keys(other)), 1)

\* ChemicalComposition::_sub_from.
sub_from(c, other) == SubLoop(c, other, AnOrder(Keys(other)), 1)

RECURSIVE MulLoop(_, _, _, _)
MulLoop(c, scaler, keys, i) ==
    IF i > Len(keys) THEN c
    ELSE MulLoop([c EXCEPT !.composition =
                     IF keys[i] \in DOMAIN @
                     THEN [@ EXCEPT ![keys[i]] = @ * scaler]
                     ELSE Insert(@, keys[i], 0 * scaler)],
                 scaler, keys, i + 1)

\* _mul_by as a bug would have it: the entries scaled to zero are removed.
mul_by_dropzero(c, scaler) ==
    [c EXCEPT !.composition =
        [k \in {x \in DOMAIN @ : @[x] * scaler # 0} |-> @[k] * scaler]]

\* ChemicalComposition::_mul_by: the counts are scaled in place through
\* entry(key).or_insert(0); mass_cache is not assigned.
mul_by(c, scaler) == MulLoop(c, scaler, AnOrder(Keys(c)), 1)

\* #[derive(Clone)]: the map and the cache state are both copied.
clone(c) == [composition |-> c.composition, mass_cache |-> c.mass_cache]

\* Add for &ChemicalComposition.
add(c, other) == add_from(clone(c), other)

\* Sub for &ChemicalComposition.
sub(c, other) == sub_from(clone(c), other)

\* Mul<i32> for &ChemicalComposition.
mul(c, k) == mul_by(clone(c), k)

\* PartialEq as a bug would have it: derived, so the caches are compared too.
eq_derived(c, other) == c = other

\* PartialEq for ChemicalComposition: equality of the two maps.
eq(c, other) == c.composition = other.composition

(***************************************************************************)
(* ElementSpecification: to_string and parse.                              *)
(***************************************************************************)
Digit(d) == <<"0", "1", "2", "3", "4", "5", "6", "7", "8", "9">>[d + 1]

RECURSIVE NatToString(_)
NatToString(n) ==
    IF n < 10 THEN <<Digit(n)>> ELSE NatToString(n \div 10) \o <<Digit(n % 10)>>

\* The Display of an integer (i32, u16): a minus sign, then the decimal digits.
IntToString(n) == IF n < 0 THEN <<"-">> \o NatToString(-n) ELSE NatToString(n)

\* to_string as a bug would have it: the isotope is not rendered.
spec_to_string_bare(s) == PERIODIC_TABLE[s.element].symbol

\* ElementSpecification::to_string.
spec_to_string(s) ==
    IF s.isotope = 0 THEN PERIODIC_TABLE[s.element].symbol
    ELSE PERIODIC_TABLE[s.element].symbol \o <<"[">> \o IntToString(s.isotope) \o <<"]">>

\* No ElementSpecification: the value field of a Result that is not Ok.
NoSpec == [element |-> <<>>, isotope |-> 0]

\* Result<ElementSpecification, String>, and the panic that returns nothing.
Ok(v) == [kind |-> "Ok", value |-> v, msg |-> ""]
Err(e) == [kind |-> "Err", value |-> NoSpec, msg |-> e]
\* A panic: an unwrap of an Err, a slice out of order, a missing HashMap key.
Panic == [kind |-> "Panic", value |-> NoSpec, msg |-> ""]

UnclosedMsg == "Unclosed [ in element specifier"

IsDigit(c) == c \in {"0", "1", "2", "3", "4", "5", "6", "7", "8", "9"}

DigitValue(c) == CHOOSE d \in 0..9 : Digit(d) = c

RECURSIVE DigitsValue(_, _)
DigitsValue(str, n) ==
    IF n = 0 THEN 0 ELSE DigitsValue(str, n - 1) * 10 + DigitValue(str[n])

\* str::parse::<u16>: one or more decimal digits (a leading + is allowed, the
\* model's alphabet has none) whose value fits 16 bits.
parse_u16(str) ==
    IF str = <<>> \/ \E i \in 1..Len(str) : ~IsDigit(str[i]) THEN [kind |-> "Err", value |-> 0]
    ELSE IF DigitsValue(str, Len(str)) > 65535 THEN [kind |-> "Err", value |-> 0]
    ELSE [kind |-> "Ok", value |-> DigitsValue(str, Len(str))]

\* string[from..to], indices counted from 0; a panic when from > to.
Slice(string, from, to) == SubSeq(string, from + 1, to)

\* The scan loop of parse from char i (counted from 0) on; st holds elt_end,
\* iso_start, iso_end and whether the loop has returned the Err.
RECURSIVE ParseScan(_, _, _)
ParseScan(string, i, st) ==
    IF i >= Len(string) \/ st.err THEN st
    ELSE IF string[i + 1] = "["
         THEN IF Len(string) > i
              THEN ParseScan(string, i + 1, [st EXCEPT !.elt_end = i, !.iso_start = i + 1])
              ELSE [st EXCEPT !.elt_end = i, !.err = TRUE]
         ELSE IF string[i + 1] = "]"
              THEN ParseScan(string, i + 1, [st EXCEPT !.iso_end = i])
              ELSE ParseScan(string, i + 1, st)

\* ElementSpecification::parse.
parse(string) ==
    LET n == Len(string)
        st == ParseScan(string, 0, [elt_end |-> n, iso_start |-> n, iso_end |-> n, err |-> FALSE])
        elt_sym == Slice(string, 0, st.elt_end)
    IN  IF st.err THEN Err(UnclosedMsg)
        ELSE IF elt_sym \notin DOMAIN PERIODIC_TABLE THEN Panic
        ELSE IF st.iso_start # st.iso_end
             THEN IF st.iso_start > st.iso_end THEN Panic
                  ELSE IF parse_u16(Slice(string, st.iso_start, st.iso_end)).kind # "Ok" THEN Panic
                  ELSE Ok(ElementSpecification(elt_sym,
                              parse_u16(Slice(string, st.iso_start, st.iso_end)).value))
             ELSE Ok(ElementSpecification(elt_sym, 0))

(***************************************************************************)
(* ChemicalComposition::to_string.                                         *)
(***************************************************************************)
\* The key of sort_by_key: 5001 for C, 5000 for H, else most_abundant_mass
\* as i64 (the mass in daltons, truncated).
SortKey(s) ==
    IF PERIODIC_TABLE[s.element].symbol = SymC THEN 5001
    ELSE IF PERIODIC_TABLE[s.element].symbol = SymH THEN 5000
    ELSE PERIODIC_TABLE[s.element].most_abundant_mass \div 1000

\* x put into the sorted sequence sorted, after every element whose key is
\* not greater: the insertion step of a stable sort.
RECURSIVE InsertSorted(_, _)
InsertSorted(sorted, x) ==
    IF sorted = <<>> THEN <<x>>
    ELSE IF SortKey(sorted[Len(sorted)]) <= SortKey(x) THEN Append(sorted, x)
    ELSE Append(InsertSorted(SubSeq(sorted, 1, Len(sorted) - 1), x), sorted[Len(sorted)])

\* slice::sort_by_key, a stable sort, on the first n elements of parts.
RECURSIVE sort_by_key(_, _)
sort_by_key(parts, n) ==
    IF n = 0 THEN <<>> ELSE InsertSorted(sort_by_key(parts, n - 1), parts[n])

reverse(parts) == [i \in 1..Len(parts) |-> parts[Len(parts) + 1 - i]]

RECURSIVE JoinTokens(_, _, _)
JoinTokens(c, parts, i) ==
    IF i > Len(parts) THEN <<>>
    ELSE spec_to_string(parts[i]) \o IntToString(c.composition[parts[i]])
             \o JoinTokens(c, parts, i + 1)

\* ChemicalComposition::to_string, order being the order in which the map's
\* iterator yields the entries.
to_string(c, order) == JoinTokens(c, reverse(sort_by_key(order, Len(order))), 1)

(***************************************************************************)
(* The state.                                                              *)
(*   a      the composition under test (the receiver of the methods)       *)
(*   b      the right operand of the binary operators                      *)
(*   t      the composition the last operator or clone returned: a         *)
(*          temporary, dropped by the next call that does not read it      *)
(*   tsrc   the expression over a and b whose value t holds                *)
(*   ret    the value the last call returned                               *)
(*   last   the last call: its name, receiver and arguments                *)
(*   text   the text handed to ElementSpecification::parse                 *)
(*   pairs  the pairs handed to from_iter; pos counts those consumed       *)
(***************************************************************************)
\* A returned value: (), an i32 or f64, a bool, a String or a Result, each in
\* the field of its type.
Ret(kind, int, bool, str, res) ==
    [kind |-> kind, int |-> int, bool |-> bool, str |-> str, res |-> res]

Unit == Ret("unit", 0, FALSE, <<>>, Panic)

RetInt(v) == Ret("int", v, FALSE, <<>>, Panic)

RetBool(v) == Ret("bool", 0, v, <<>>, Panic)

RetStr(v) == Ret("str", 0, FALSE, v, Panic)

RetRes(v) == Ret("res", 0, FALSE, <<>>, v)

Call(op, recv, s, n, hit) == [op |-> op, recv |-> recv, s |-> s, n |-> n, hit |-> hit]

Src(op, k) == [op |-> op, k |-> k]

NoSrc == Src("none", 0)

\* The keys, counts and scalers the calls of Spec draw their arguments from.
KeySpecs == {ElementSpecification(SymC, 0), ElementSpecification(SymC, 13)}

Counts == -MaxCount..MaxCount

Deltas == {-1, 1}

Scalers == {-1, 0, 2}

\* The cap of the model: every count within -MaxCount..MaxCount.
InRange(c) == \A k \in Keys(c) : c.composition[k] \in Counts

\* The right operands: every map over KeySpecs with counts -1, 0 and 1, as
\* set builds it (no cached mass).
Others ==
    UNION {{[composition |-> m, mass_cache |-> None] : m \in [K -> Deltas \cup {0}]}
              : K \in SUBSET KeySpecs}

Init ==
    /\ a = new
    /\ b \in Others
    /\ t = None
    /\ tsrc = NoSrc
    /\ ret = Unit
    /\ last = Call("init", "", NoSpec, 0, FALSE)
    /\ text = <<>>
    /\ pairs = [kind |-> "none", items |-> <<>>]
    /\ pos = 0

\* a.set(s, n)
Set(s, n) ==
    /\ a' = set(a, s, n)
    /\ t' = None
    /\ tsrc' = NoSrc
    /\ ret' = Unit
    /\ last' = Call("set", "a", s, n, FALSE)
    /\ UNCHANGED <<b, text, pairs, pos>>

\* a.inc(s, n)
Inc(s, n) ==
    /\ a' = inc(a, s, n)
    /\ InRange(a')
    /\ t' = None
    /\ tsrc' = NoSrc
    /\ ret' = Unit
    /\ last' = Call("inc", "a", s, n, FALSE)
    /\ UNCHANGED <<b, text, pairs, pos>>

\* a.get(&s)
Get(s) ==
    /\ ret' = RetInt(get(a, s))
    /\ t' = None
    /\ tsrc' = NoSrc
    /\ last' = Call("get", "a", s, 0, FALSE)
    /\ UNCHANGED <<a, b, text, pairs, pos>>

\* a.mass()
Mass ==
    /\ ret' = RetInt(mass(a))
    /\ t' = None
    /\ tsrc' = NoSrc
    /\ last' = Call("mass", "a", NoSpec, 0, a.mass_cache # None)
    /\ UNCHANGED <<a, b, text, pairs, pos>>

\* a.fmass(): the value returned is the one mass() gives before the store.
FMass ==
    /\ ret' = RetInt(mass(a))
    /\ a' = fmass(a)
    /\ t' = None
    /\ tsrc' = NoSrc
    /\ last' = Call("fmass", "a", NoSpec, 0, a.mass_cache # None)
    /\ UNCHANGED <<b, text, pairs, pos>>

\* a += &b
AddAssign ==
    /\ a' = add_from(a, b)
    /\ InRange(a')
    /\ t' = None
    /\ tsrc' = NoSrc
    /\ ret' = Unit
    /\ last' = Call("add_assign", "a", NoSpec, 0, FALSE)
    /\ UNCHANGED <<b, text, pairs, pos>>

\* a -= &b
SubAssign ==
    /\ a' = sub_from(a, b)
    /\ InRange(a')
    /\ t' = None
    /\ tsrc' = NoSrc
    /\ ret' = Unit
    /\ last' = Call("sub_assign", "a", NoSpec, 0, FALSE)
    /\ UNCHANGED <<b, text, pairs, pos>>

\* a *= k
MulAssign(k) ==
    /\ a' = mul_by(a, k)
    /\ InRange(a')
    /\ t' = None
    /\ tsrc' = NoSrc
    /\ ret' = Unit
    /\ last' = Call("mul_assign", "a", NoSpec, k, FALSE)
    /\ UNCHANGED <<b, text, pairs, pos>>

\* t = &a + &b
Add ==
    /\ t' = Some(add(a, b))
    /\ InRange(t'[1])
    /\ tsrc' = Src("add", 0)
    /\ ret' = Unit
    /\ last' = Call("add", "a", NoSpec, 0, FALSE)
    /\ UNCHANGED <<a, b, text, pairs, pos>>

\* t = &x - &b, x being a or the t of the state: after t = &a + &b the new t
\* is (a + b) - b.
Sub(x) ==
    /\ x = "a" \/ t # None
    /\ t' = Some(sub(IF x = "a" THEN a ELSE t[1], b))
    /\ InRange(t'[1])
    /\ tsrc' = IF x = "a" THEN Src("sub", 0)
               ELSE IF tsrc.op = "add" THEN Src("add_sub", 0) ELSE Src("other", 0)
    /\ ret' = Unit
    /\ last' = Call("sub", x, NoSpec, 0, FALSE)
    /\ UNCHANGED <<a, b, text, pairs, pos>>

\* t = &a * k
Mul(k) ==
    /\ t' = Some(mul(a, k))
    /\ InRange(t'[1])
    /\ tsrc' = Src("mul", k)
    /\ ret' = Unit
    /\ last' = Call("mul", "a", NoSpec, k, FALSE)
    /\ UNCHANGED <<a, b, text, pairs, pos>>

\* t = a.clone()
Clone ==
    /\ t' = Some(clone(a))
    /\ tsrc' = Src("clone", 0)
    /\ ret' = Unit
    /\ last' = Call("clone", "a", NoSpec, 0, FALSE)
    /\ UNCHANGED <<a, b, text, pairs, pos>>

\* a == y, y being b or t
Eq(y) ==
    /\ y = "b" \/ t # None
    /\ ret' = RetBool(eq(a, IF y = "b" THEN b ELSE t[1]))
    /\ IF y = "b" THEN t' = None /\ tsrc' = NoSrc ELSE UNCHANGED <<t, tsrc>>
    /\ last' = Call("eq", y, NoSpec, 0, FALSE)
    /\ UNCHANGED <<a, b, text, pairs, pos>>

Next ==
    \/ \E s \in KeySpecs, n \in Counts : Set(s, n)
    \/ \E s \in KeySpecs, n \in Deltas : Inc(s, n)
    \/ \E s \in KeySpecs : Get(s)
    \/ Mass
    \/ FMass
    \/ AddAssign
    \/ SubAssign
    \/ \E k \in Scalers : MulAssign(k)
    \/ Add
    \/ \E x \in {"a", "t"} : Sub(x)
    \/ \E k \in Scalers : Mul(k)
    \/ Clone
    \/ \E y \in {"b", "t"} : Eq(y)

Spec == Init /\ [][Next]_vars

(***************************************************************************)
(* ChemicalComposition::to_string on compositions built with set.          *)
(***************************************************************************)
StrSpecs ==
    {ElementSpecification(SymC, 0), ElementSpecification(SymC, 13),
     ElementSpecification(SymH, 0), ElementSpecification(SymO, 0),
     ElementSpecification(SymAr, 0), ElementSpecification(SymCa, 0)}

StrCounts == {6, 12}

\* a.to_string(), the map's iterator yielding the entries in any order.
CompToString ==
    /\ \E order \in IterOrders(Keys(a)) : ret' = RetStr(to_string(a, order))
    /\ last' = Call("to_string", "a", NoSpec, 0, FALSE)
    /\ UNCHANGED <<a, b, t, tsrc, text, pairs, pos>>

InitStr ==
    /\ a = new
    /\ b = new
    /\ t = None
    /\ tsrc = NoSrc
    /\ ret = Unit
    /\ last = Call("init", "", NoSpec, 0, FALSE)
    /\ text = <<>>
    /\ pairs = [kind |-> "none", items |-> <<>>]
    /\ pos = 0

NextStr ==
    \/ \E s \in StrSpecs, n \in StrCounts :
          Cardinality(Keys(a) \cup {s}) <= MaxKeys /\ Set(s, n)
    \/ CompToString

SpecStr == InitStr /\ [][NextStr]_vars

(***************************************************************************)
(* ElementSpecification::parse on every text of up to MaxLen characters.   *)
(***************************************************************************)
Alphabet == {"C", "H", "F", "e", "[", "]", "1", "3"}

Texts == UNION {[1..n -> Alphabet] : n \in 0..MaxLen}

\* ElementSpecification::parse(text)
Parse ==
    /\ ret' = RetRes(parse(text))
    /\ last' = Call("parse", "", NoSpec, 0, FALSE)
    /\ UNCHANGED <<a, b, t, tsrc, text, pairs, pos>>

InitParse ==
    /\ a = new
    /\ b = new
    /\ t = None
    /\ tsrc = NoSrc
    /\ ret = Unit
    /\ last = Call("init", "", NoSpec, 0, FALSE)
    /\ text \in Texts
    /\ pairs = [kind |-> "none", items |-> <<>>]
    /\ pos = 0

NextParse == Parse

SpecParse == InitParse /\ [][NextParse]_vars

(***************************************************************************)
(* FromIterator: a composition collected from a sequence of pairs, one     *)
(* turn of the loop per step.                                              *)
(***************************************************************************)
PairSpecs ==
    {ElementSpecification(SymC, 0), ElementSpecification(SymC, 13),
     ElementSpecification(SymH, 0)}

\* The texts of the pairs keyed by text; N names no element of the table.
PairTexts == {spec_to_string(s) : s \in PairSpecs} \cup {<<"N">>}

PairCounts == {-1, 1, 2}

PairSeqs(K) == UNION {[1..n -> K \X PairCounts] : n \in 0..MaxPairs}

PairInputs ==
    {[kind |-> "spec", items |-> q] : q \in PairSeqs(PairSpecs)}
        \cup {[kind |-> "str", items |-> q] : q \in PairSeqs(PairTexts)}

\* FromIterator<(ElementSpecification, i32)>: one turn of the loop.
FromIterSpec ==
    /\ pairs.kind = "spec"
    /\ pos < Len(pairs.items)
    /\ a' = inc(a, pairs.items[pos + 1][1], pairs.items[pos + 1][2])
    /\ pos' = pos + 1
    /\ last' = Call("inc", "a", pairs.items[pos + 1][1], pairs.items[pos + 1][2], FALSE)
    /\ UNCHANGED <<b, t, tsrc, ret, text, pairs>>

\* FromIterator<(&str, i32)>: one turn of the loop; the unwrap of a key that
\* does not parse panics and ends the collection.
FromIterStr ==
    /\ pairs.kind = "str"
    /\ pos < Len(pairs.items)
    /\ last.op # "panic"
    /\ IF parse(pairs.items[pos + 1][1]).kind = "Ok"
       THEN /\ a' = inc(a, parse(pairs.items[pos + 1][1]).value, pairs.items[pos + 1][2])
            /\ pos' = pos + 1
            /\ last' = Call("inc", "a", parse(pairs.items[pos + 1][1]).value,
                            pairs.items[pos + 1][2], FALSE)
       ELSE /\ last' = Call("panic", "", NoSpec, 0, FALSE)
            /\ UNCHANGED <<a, pos>>
    /\ UNCHANGED <<b, t, tsrc, ret, text, pairs>>

InitFrom ==
    /\ a = new
    /\ b = new
    /\ t = None
    /\ tsrc = NoSrc
    /\ ret = Unit
    /\ last = Call("init", "", NoSpec, 0, FALSE)
    /\ text = <<>>
    /\ pairs \in PairInputs
    /\ pos = 0

NextFrom ==
    \/ FromIterSpec
    \/ FromIterStr

SpecFrom == InitFrom /\ [][NextFrom]_vars

(***************************************************************************)
(* set, inc and get on the keys of one composition: two isotopes of one    *)
(* element, which hash alike, and another element.                         *)
(***************************************************************************)
IdKeys ==
    {ElementSpecification(SymC, 0), ElementSpecification(SymC, 13),
     ElementSpecification(SymH, 0)}

InitId ==
    /\ a = new
    /\ b = new
    /\ t = None
    /\ tsrc = NoSrc
    /\ ret = Unit
    /\ last = Call("init", "", NoSpec, 0, FALSE)
    /\ text = <<>>
    /\ pairs = [kind |-> "none", items |-> <<>>]
    /\ pos = 0

NextId ==
    \/ \E s \in IdKeys, n \in Counts : Set(s, n)
    \/ \E s \in IdKeys, n \in Deltas : Inc(s, n)
    \/ \E s \in IdKeys : Get(s)

SpecId == InitId /\ [][NextId]_vars

(***************************************************************************)
(* ElementSpecification::to_string, and parse of the rendered text.        *)
(***************************************************************************)
\* The isotope numbers rendered: the small ones, the numbers where the count
\* of digits changes, and the ends of u16.
RoundIsotopes == 0..MaxIsotope \cup {99, 100, 255, 256, 999, 1000, 9999, 10000, 65535}

RoundSpecs ==
    {ElementSpecification(e, n) : e \in DOMAIN PERIODIC_TABLE, n \in RoundIsotopes}

\* text = s.to_string()
SpecToString(s) ==
    /\ text' = spec_to_string(s)
    /\ ret' = RetStr(text')
    /\ last' = Call("spec_to_string", "", s, 0, FALSE)
    /\ UNCHANGED <<a, b, t, tsrc, pairs, pos>>

\* The letters of the table's symbols, and N, which begins none of them.
Letters == {"C", "H", "O", "F", "e", "A", "r", "a", "N"}

\* The texts with no bracket, as long as the symbols of the table are.
BareTexts == UNION {[1..n -> Letters] : n \in 0..Len(SymFe)}

InitRound ==
    /\ a = new
    /\ b = new
    /\ t = None
    /\ tsrc = NoSrc
    /\ ret = Unit
    /\ last = Call("init", "", NoSpec, 0, FALSE)
    /\ text \in BareTexts
    /\ pairs = [kind |-> "none", items |-> <<>>]
    /\ pos = 0

NextRound ==
    \/ \E s \in RoundSpecs : SpecToString(s)
    \/ Parse

SpecRound == InitRound /\ [][NextRound]_vars

(***************************************************************************)
(* The claims.                                                             *)
(***************************************************************************)
CacheValid(c) == c.mass_cache # None => c.mass_cache[1] = calc_mass(c)

\* C1: whenever a composition holds a cached mass, that value is calc_mass()
\* of its current counts, after any sequence of set, inc, +=, -=, *=, +, -,
\* *, clone, mass and fmass.
C1_CacheCoherence ==
    /\ CacheValid(a)
    /\ t # None => CacheValid(t[1])

\* A text with a [ that no ] follows.
Unclosed(str) ==
    \E i \in 1..Len(str) :
        str[i] = "[" /\ \A j \in (i + 1)..Len(str) : str[j] # "]"

\* C2: parse of a text with an unclosed [ fails, with the unclosed-bracket
\* error when it returns an error, and never returns a specification.
C2_UnclosedBracketFails ==
    (last.op = "parse" /\ Unclosed(text)) =>
        /\ ret.res.kind # "Ok"
        /\ ret.res.kind = "Err" => ret.res.msg = UnclosedMsg

\* C3 as claimed: (a + b) - b == a under the equality operator, for all a, b.
C3_AddSubEqual == tsrc.op = "add_sub" => eq(t[1], a)

\* C3 as amended: (a + b) - b has the count of a for every specification, its
\* keys are those of a and of b together, and it equals a under the equality
\* operator exactly when every key of b is a key of a.
C3_AddSubCounts ==
    tsrc.op = "add_sub" =>
        /\ \A s \in KeySpecs : get(t[1], s) = get(a, s)
        /\ Keys(t[1]) = Keys(a) \cup Keys(b)
        /\ eq(t[1], a) <=> Keys(b) \subseteq Keys(a)

C3_Witness ==
    /\ tsrc.op = "add_sub"
    /\ last.op = "sub"
    /\ \E s \in Keys(b) : s \notin Keys(a) /\ b.composition[s] # 0
    /\ \E s \in Keys(a) : a.composition[s] # 0

\* r holds, for every key of x, the count of x times k, and no other key.
Scaled(r, x, k) ==
    /\ Keys(r) = Keys(x)
    /\ \A s \in Keys(x) : get(r, s) = get(x, s) * k

\* C4: a * k and a *= k give every key of a its count times k and leave the
\* set of keys as it was, for k negative, zero and positive.
C4_ScalarMul ==
    [][/\ last'.op = "mul" => Scaled(t'[1], a, last'.n)
       /\ last'.op = "mul_assign" => Scaled(a', a, last'.n)]_vars

C4_Witness ==
    /\ last.op = "mul"
    /\ last.n = 0
    /\ \E s \in Keys(a) : a.composition[s] # 0 /\ s \in Keys(t[1]) /\ t[1].composition[s] = 0

\* C5: get of a specification that is absent returns 0 and leaves the
\* composition as it was: the same keys, the same cache, equal to itself
\* before the call.
C5_GetAbsent ==
    [][(last'.op = "get" /\ last'.s \notin Keys(a)) =>
          /\ ret' = RetInt(0)
          /\ Keys(a') = Keys(a)
          /\ a'.mass_cache = a.mass_cache
          /\ eq(a', a)]_vars

C5_Witness ==
    /\ last.op = "get"
    /\ last.s \notin Keys(a)
    /\ Keys(a) # {}
    /\ a.mass_cache # None
    /\ ret = RetInt(0)

\* The compared operand of the last a == y.
EqOperand == IF last.recv = "b" THEN b ELSE t[1]

\* C6: a == y holds exactly when the two maps have the same keys with the
\* same counts, whatever the cached masses; a zero entry counts as a key.
C6_Equality ==
    last.op = "eq" =>
        (ret.bool <=> /\ Keys(a) = Keys(EqOperand)
                 /\ \A s \in Keys(a) : a.composition[s] = EqOperand.composition[s])

C6_Witness ==
    /\ last.op = "eq"
    /\ ret = RetBool(FALSE)
    /\ \A s \in KeySpecs : get(a, s) = get(EqOperand, s)
    /\ \E s \in Keys(EqOperand) : s \notin Keys(a) /\ EqOperand.composition[s] = 0

\* r is the elementwise sum of x and y.
SumOf(r, x, y) ==
    /\ Keys(r) = Keys(x) \cup Keys(y)
    /\ \A s \in KeySpecs : get(r, s) = get(x, s) + get(y, s)
    /\ \A s \in Keys(x) \ Keys(y) : r.composition[s] = x.composition[s]
    /\ \A s \in Keys(y) \ Keys(x) : r.composition[s] = y.composition[s]

\* C7: a + b and a += b are the elementwise sum: the keys of both operands,
\* each with the sum of its two counts, a key of one operand with its count.
C7_Addition ==
    [][/\ last'.op = "add" => SumOf(t'[1], a, b)
       /\ last'.op = "add_assign" => SumOf(a', a, b)]_vars

C7_Witness ==
    /\ last.op = "add"
    /\ \E s \in Keys(a) : s \notin Keys(b) /\ a.composition[s] # 0
    /\ \E s \in Keys(b) : s \notin Keys(a) /\ b.composition[s] # 0

\* C8: mass() returns the cached value when there is one and calc_mass()
\* otherwise, and changes nothing; only fmass() takes a from no cached mass to
\* a cached mass; two fmass() calls in a row return the same value.
C8_CacheTransitions ==
    [][/\ last'.op = "mass" =>
             /\ a' = a
             /\ ret' = RetInt(IF a.mass_cache # None THEN a.mass_cache[1] ELSE calc_mass(a))
       /\ (a.mass_cache = None /\ a'.mass_cache # None) => last'.op = "fmass"
       /\ (last.op = "fmass" /\ last'.op = "fmass") => ret' = ret]_vars

C8_Witness ==
    /\ last.op = "fmass"
    /\ last.hit
    /\ Keys(a) # {}
    /\ ret = RetInt(a.mass_cache[1])

\* The specification a pair of the sequence is keyed by.
KeyOf(item) == IF pairs.kind = "spec" THEN item[1] ELSE parse(item[1]).value

RECURSIVE PairSum(_, _)
PairSum(s, n) ==
    IF n = 0 THEN 0
    ELSE PairSum(s, n - 1) + (IF KeyOf(pairs.items[n]) = s THEN pairs.items[n][2] ELSE 0)

\* C9: the composition collected from a sequence of pairs holds, for every
\* specification, the sum of the counts of the pairs keyed by it, and no key
\* but those of the pairs.
C9_FromIterSums ==
    pairs.kind \in {"spec", "str"} =>
        /\ \A s \in PairSpecs : get(a, s) = PairSum(s, pos)
        /\ Keys(a) = {KeyOf(pairs.items[n]) : n \in 1..pos}

C9_Witness ==
    /\ pairs.kind = "str"
    /\ pos = Len(pairs.items)
    /\ \E m, n \in 1..pos :
          /\ m < n
          /\ pairs.items[m][1] = pairs.items[n][1]
          /\ \A k \in (n + 1)..pos : pairs.items[k][1] # pairs.items[n][1]
          /\ pairs.items[m][2] # 0
          /\ get(a, KeyOf(pairs.items[n])) # pairs.items[n][2]

\* C10: to_string() renders a count mapping to one string, whatever the order
\* in which the map yields its entries, ties on the sort key included.
C10_ToStringFixedOrder ==
    last.op = "to_string" =>
        \A order \in IterOrders(Keys(a)) : ret = RetStr(to_string(a, order))


\* The specifications the identity of C11 is checked on: two isotopes of
\* carbon, of hydrogen and of iron, and elements that differ.
IdSpecs ==
    StrSpecs \cup {ElementSpecification(SymH, 2), ElementSpecification(SymFe, 0),
                   ElementSpecification(SymFe, 54)}

\* The same element and the same isotope.
SameIdentity(s1, s2) == s1.element = s2.element /\ s1.isotope = s2.isotope

\* C11: two specifications are equal exactly when they have the same element
\* and the same isotope, and equal specifications hash identically; set(s, n)
\* and inc(s, n) give s its new count and leave every other specification,
\* one of the same element and another isotope included, with the entry and
\* the count it had.
C11_SpecIdentity ==
    [][last'.op \in {"set", "inc"} =>
          /\ \A s \in IdSpecs :
                /\ SpecEq(s, last'.s) <=> SameIdentity(s, last'.s)
                /\ SpecEq(s, last'.s) => hash(s) = hash(last'.s)
          /\ get(a', last'.s) = IF last'.op = "set" THEN last'.n
                                ELSE get(a, last'.s) + last'.n
          /\ \A s \in IdKeys :
                ~SameIdentity(s, last'.s) =>
                    /\ get(a', s) = get(a, s)
                    /\ s \in Keys(a') <=> s \in Keys(a)
                    /\ s \in Keys(a) => a'.composition[s] = a.composition[s]]_vars

C11_Witness ==
    /\ last.op = "inc"
    /\ last.s = ElementSpecification(SymC, 13)
    /\ hash(last.s) = hash(ElementSpecification(SymC, 0))
    /\ Keys(a) = IdKeys
    /\ a.composition[ElementSpecification(SymC, 0)] # 0
    /\ a.composition[last.s] # a.composition[ElementSpecification(SymC, 0)]
    /\ a.composition[ElementSpecification(SymH, 0)] # 0

\* A text with neither [ nor ].
NoBracket(str) == \A i \in 1..Len(str) : str[i] \notin {"[", "]"}

\* C12: parse of the text to_string renders for a specification returns Ok
\* with a specification equal to it, for every element of the table and every
\* isotope number; parse of a text with no bracket that names an element
\* returns that element with isotope 0, and never another isotope.
C12_RoundTrip ==
    [][last'.op = "parse" =>
          /\ last.op = "spec_to_string" =>
                /\ ret'.res.kind = "Ok"
                /\ SpecEq(ret'.res.value, last.s)
                /\ ret'.res = Ok(last.s)
          /\ (NoBracket(text) /\ text \in DOMAIN PERIODIC_TABLE) =>
                ret'.res = Ok(ElementSpecification(text, 0))
          /\ (NoBracket(text) /\ ret'.res.kind = "Ok") =>
                ret'.res.value.isotope = 0]_vars

C12_Witness ==
    /\ last.op = "parse"
    /\ text = SymFe \o <<"[", "6", "5", "5", "3", "5", "]">>
    /\ ret = RetRes(Ok(ElementSpecification(SymFe, 65535)))

====
